---- MODULE Spec2Model ----
(***************************************************************************)
(* A model of the Daily Gratitude Journal: the Streamlit application       *)
(* (app.py) as a set of UI sessions running the script against the three   *)
(* backend tables through the process-wide read cache, and the reminder    *)
(* job (send_reminders.py) as a separate batch process.                    *)
(*                                                                         *)
(* Spec     the journal: logged-in sessions of regular users running the   *)
(*          main screen against the backend, the cache and the clock.      *)
(* RegSpec  login, registration and logout on a backend that starts empty. *)
(* JobSpec  one run of the reminder job over a backend drawn from a        *)
(*          bounded set of table contents.                                 *)
(* AdminSpec the journal with a configured superuser: login, logout, the   *)
(*          main screen of regular users and the superuser's tabs.         *)
(* WriteSpec registration, daily entries and weekly letters side by side.  *)
(***************************************************************************)
EXTENDS Integers, Sequences, FiniteSets, Bags, TLC

VARIABLES
    today,              \* the clock: date.today() as a proleptic ordinal
    user_data,          \* backend table user_data (a bag of rows)
    daily_gratitude,    \* backend table daily_gratitude (a bag of rows)
    weekly_letters,     \* backend table weekly_letters (a bag of rows)
    superuser_name,     \* st.secrets.admin.superuser_name, or None
    cache,              \* st.cache_data: cache key -> DataFrame
    logged_in_user,     \* st.session_state.logged_in_user, per session
    pc,                 \* position of each session's script run
    pending,            \* the registration a run carries to its insert
    today_str,          \* the run's today_str (app.py line 211)
    df_daily_entries,   \* the run's df_daily_entries (line 221)
    df_weekly_letters,  \* the run's df_weekly_letters (line 222)
    ev,                 \* the step just taken and its outcome
    env,                \* reminder job: the environment variables that are set
    jobPc,              \* reminder job: position in the script
    user_df,            \* reminder job: the fetched rows, in fetch order
    idx,                \* reminder job: index of the loop of main
    attempts,           \* reminder job: the mail posts made so far, in order
    exit_status,        \* reminder job: process exit status, or -1 while running
    job_failure         \* reminder job: the job-level failure met, or "none"

uiVars == <<today, user_data, daily_gratitude, weekly_letters, superuser_name,
            cache, logged_in_user, pc, pending, today_str, df_daily_entries,
            df_weekly_letters, ev>>
jobVars == <<env, jobPc, user_df, idx, attempts, exit_status, job_failure>>
vars == <<today, user_data, daily_gratitude, weekly_letters, superuser_name,
          cache, logged_in_user, pc, pending, today_str, df_daily_entries,
          df_weekly_letters, ev, env, jobPc, user_df, idx, attempts,
          exit_status, job_failure>>

(***************************************************************************)
(* Bounds of the model.                                                    *)
(***************************************************************************)
MaxDays == 1
MaxUserRows == 2
MaxDailyRows == 2
MaxWeeklyRows == 1
WeekWindow == 6

(***************************************************************************)
(* Values.                                                                 *)
(***************************************************************************)
None == "None"
NULL == "NULL"

DAILY_TABLE == "daily_gratitude"
WEEKLY_TABLE == "weekly_letters"
USERS_TABLE == "user_data"

Sessions == {"s1", "s2"}
UserNames == {"u1", "root"}

(***************************************************************************)
(* Dates. A date is its proleptic Gregorian ordinal (date.toordinal());    *)
(* an ISO date string is the triple <<year, month, day>> it spells.        *)
(***************************************************************************)
isoweekday(d) == IF d % 7 = 0 THEN 7 ELSE d % 7

IsLeap(y) == y % 4 = 0 /\ (y % 100 # 0 \/ y % 400 = 0)

\* The days of each month of a common year, and the days before it.
CommonDaysInMonth(m) ==
    IF m = 2 THEN 28 ELSE IF m \in {4, 6, 9, 11} THEN 30 ELSE 31

RECURSIVE CommonDaysBeforeMonth(_)
CommonDaysBeforeMonth(m) ==
    IF m <= 1 THEN 0
    ELSE CommonDaysBeforeMonth(m - 1) + CommonDaysInMonth(m - 1)

DaysBeforeMonth(y, m) ==
    CommonDaysBeforeMonth(m) + (IF m > 2 /\ IsLeap(y) THEN 1 ELSE 0)

DaysBeforeYear(y) ==
    LET p == y - 1 IN p * 365 + (p \div 4) - (p \div 100) + (p \div 400)

\* date.isoformat(): the year, month and day of an ordinal (ord2ymd).
isoformat(d) ==
    LET n0 == d - 1
        n400 == n0 \div 146097
        r400 == n0 % 146097
        n100 == r400 \div 36524
        r100 == r400 % 36524
        n4 == r100 \div 1461
        r4 == r100 % 1461
        n1 == r4 \div 365
        n == r4 % 365
        year == n400 * 400 + 1 + n100 * 100 + n4 * 4 + n1
    IN  IF n1 = 4 \/ n100 = 4 THEN <<year - 1, 12, 31>>
        ELSE LET leap == n1 = 3 /\ (n4 # 24 \/ n100 = 3)
                 guess == (n + 50) \div 32
                 before == CommonDaysBeforeMonth(guess)
                               + (IF guess > 2 /\ leap THEN 1 ELSE 0)
                 month == IF before > n THEN guess - 1 ELSE guess
                 preceding ==
                     IF before > n
                     THEN before - (CommonDaysInMonth(month)
                                       + (IF month = 2 /\ leap THEN 1 ELSE 0))
                     ELSE before
             IN  <<year, month, n - preceding + 1>>

\* date.fromisoformat(): the ordinal of a year, month and day (ymd2ord).
fromisoformat(s) ==
    DaysBeforeYear(s[1]) + DaysBeforeMonth(s[1], s[2]) + s[3]

\* timedelta subtraction on dates.
MinusDays(d, k) == d - k

get_week_start_off_by_one(d) == isoformat(MinusDays(d, isoweekday(d)))

\* app.py get_week_start: the ISO string of the Monday of d's week.
get_week_start(d) == isoformat(MinusDays(d, isoweekday(d) - 1))

NoDate == <<0, 0, 0>>

\* The clock starts on Sunday 2023-12-31: the next day begins a new ISO week,
\* a new month and a new year.
FirstDay == fromisoformat(<<2023, 12, 31>>)

(***************************************************************************)
(* Text. A string is a TLA+ string; Chars spells the email inputs out for  *)
(* the regular expression.                                                 *)
(***************************************************************************)
EmailInputs == {"", "a@b.c", "a@b.c@d", "a@bc", "ab.c", "a@@b.c"}

Chars(s) ==
    CASE s = "" -> <<>>
      [] s = "a@b.c" -> <<"a", "@", "b", ".", "c">>
      [] s = "a@b.c@d" -> <<"a", "@", "b", ".", "c", "@", "d">>
      [] s = "a@bc" -> <<"a", "@", "b", "c">>
      [] s = "ab.c" -> <<"a", "b", ".", "c">>
      [] s = "a@@b.c" -> <<"a", "@", "@", "b", ".", "c">>
      [] s = "null" -> <<"n", "u", "l", "l">>

\* c[from..to] is one or more characters, none of them "@": [^@]+
NoAtRun(c, from, to) == from <= to /\ \A p \in from..to : c[p] # "@"

\* app.py is_valid_email: re.match(r"[^@]+@[^@]+\.[^@]+", email) is truthy iff
\* some prefix of email is <run>@<run>.<run>; re.match does not anchor the end.
is_valid_email(email) ==
    LET c == Chars(email)
    IN  \E i, j, k \in 1..Len(c) :
            /\ c[i] = "@" /\ c[j] = "."
            /\ NoAtRun(c, 1, i - 1)
            /\ NoAtRun(c, i + 1, j - 1)
            /\ NoAtRun(c, j + 1, k)

\* Python truthiness of a string.
Truthy(s) == s # ""

(***************************************************************************)
(* Tables and DataFrames. A table is a bag of rows (the backend keeps no   *)
(* uniqueness constraint the application relies on); a DataFrame is the    *)
(* rows of a response with the columns they carry: pd.DataFrame([]) and    *)
(* pd.DataFrame() have neither rows nor columns.                           *)
(***************************************************************************)
UserRow(u, e) == [user_id |-> u, email |-> e]

DailyRow(u, d, f) ==
    [user_id |-> u, date |-> d, g1 |-> f[1], r1 |-> f[2], g2 |-> f[3],
     r2 |-> f[4], g3 |-> f[5], r3 |-> f[6]]

WeeklyRow(u, w, c) == [user_id |-> u, week_start |-> w, letter_content |-> c]

Restrict(B, P(_)) == [r \in {x \in DOMAIN B : P(x)} |-> B[r]]

DataFrame(rows) ==
    [columns |-> UNION {DOMAIN r : r \in BagToSet(rows)}, rows |-> rows]

EmptyFrame == DataFrame(EmptyBag)

IsEmpty(df) == df.rows = EmptyBag

SelectEqUser(table, u) ==
    LET Mine(r) == r.user_id = u IN Restrict(table, Mine)

CountOf(table, P(_)) == BagCardinality(Restrict(table, P))

(***************************************************************************)
(* The reminder job (send_reminders.py).                                   *)
(***************************************************************************)
RequiredEnv == {"SUPABASE_URL", "SUPABASE_KEY", "MAILJET_PUBLIC_KEY",
                "MAILJET_SECRET_KEY", "SENDER_EMAIL"}

\* What requests.post can do: answer 200, answer another status, or raise.
Responses == {"200", "500", "exception"}

\* pd.notna of a cell.
notna(x) == x # NULL

\* The backend's answer to select("user_id, email").not_eq("email", "null"):
\* the rows whose email is neither SQL NULL nor the text 'null'.
UsersQuery(table) ==
    LET HasEmail(r) == r.email # NULL /\ r.email # "null"
    IN  Restrict(table, HasEmail)

\* The orders in which the backend may return the rows of a bag.
RECURSIVE Orderings(_)
Orderings(B) ==
    IF B = EmptyBag THEN {<<>>}
    ELSE UNION {{<<r>> \o t : t \in Orderings(B (-) SetToBag({r}))} :
                    r \in BagToSet(B)}

\* fetch_users_for_reminder: the rows fetched, or an empty DataFrame when the
\* query raises.
fetch_users_for_reminder(table, ok) ==
    IF ok THEN Orderings(UsersQuery(table)) ELSE {<<>>}

RowEligible_either(row) == notna(row.email) \/ notna(row.user_id)

\* main, line 131: the row has an email and a user_id.
RowEligible(row) == notna(row.email) /\ notna(row.user_id)

send_reminder_email_raising(recipient_email, username, response) ==
    [post |-> [to |-> recipient_email, user |-> username],
     log |-> IF response = "200" THEN "SUCCESS" ELSE "ERROR",
     raised |-> response = "exception"]

\* send_reminder_email: one post to the mail provider; a status other than
\* 200 and an exception are both logged, and nothing is raised to main.
send_reminder_email(recipient_email, username, response) ==
    [post |-> [to |-> recipient_email, user |-> username],
     log |-> IF response = "200" THEN "SUCCESS"
             ELSE IF response = "exception" THEN "FATAL API ERROR"
             ELSE "ERROR",
     raised |-> FALSE]

\* Lines 20-23: the module-level configuration check.
JobConfigCheck ==
    /\ jobPc = "start"
    /\ IF RequiredEnv \subseteq env
       THEN jobPc' = "main" /\ exit_status' = exit_status
                           /\ job_failure' = job_failure
       ELSE jobPc' = "exited" /\ exit_status' = 1
                             /\ job_failure' = "config"
    /\ UNCHANGED <<env, user_df, idx, attempts>>
    /\ UNCHANGED uiVars

\* main, line 120: get_supabase_client; sys.exit(1) when create_client raises.
JobGetClient ==
    /\ jobPc = "main"
    /\ \E ok \in BOOLEAN :
          IF ok
          THEN jobPc' = "fetch" /\ exit_status' = exit_status
                                /\ job_failure' = job_failure
          ELSE jobPc' = "exited" /\ exit_status' = 1
                                /\ job_failure' = "client"
    /\ UNCHANGED <<env, user_df, idx, attempts>>
    /\ UNCHANGED uiVars

\* main, lines 121-127: fetch the users; return when the DataFrame is empty.
JobFetch ==
    /\ jobPc = "fetch"
    /\ \E ok \in BOOLEAN :
          \E df \in fetch_users_for_reminder(user_data, ok) :
              /\ user_df' = df
              /\ job_failure' = IF ok THEN job_failure ELSE "fetch"
              /\ IF df = <<>>
                 THEN jobPc' = "exited" /\ exit_status' = 0
                 ELSE jobPc' = "loop" /\ exit_status' = exit_status
    /\ idx' = 1
    /\ UNCHANGED <<env, attempts>>
    /\ UNCHANGED uiVars

\* main, lines 129-141: one iteration of the loop over user_df; an exception
\* that reached main would end the process with status 1.
JobLoopStep ==
    /\ jobPc = "loop"
    /\ LET row == user_df[idx]
           last == idx = Len(user_df)
       IN  IF RowEligible(row)
           THEN \E response \in Responses :
                   LET r == send_reminder_email(row.email, row.user_id, response)
                   IN  /\ attempts' = Append(attempts, [post |-> r.post, log |-> r.log])
                       /\ IF r.raised
                          THEN jobPc' = "exited" /\ exit_status' = 1
                          ELSE /\ jobPc' = IF last THEN "exited" ELSE "loop"
                               /\ exit_status' = IF last THEN 0 ELSE exit_status
           ELSE /\ attempts' = attempts
                /\ jobPc' = IF last THEN "exited" ELSE "loop"
                /\ exit_status' = IF last THEN 0 ELSE exit_status
    /\ idx' = idx + 1
    /\ UNCHANGED <<env, user_df, job_failure>>
    /\ UNCHANGED uiVars

JobNext == JobConfigCheck \/ JobGetClient \/ JobFetch \/ JobLoopStep

(***************************************************************************)
(* The application (app.py): the backend calls and the read cache.         *)
(***************************************************************************)
Table(table_name) ==
    CASE table_name = DAILY_TABLE -> daily_gratitude
      [] table_name = WEEKLY_TABLE -> weekly_letters
      [] table_name = USERS_TABLE -> user_data

EmptyCache == [k \in {} |-> EmptyFrame]

\* @st.cache_data: the stored value on a hit; on a miss the value computed,
\* which is stored under the key (the empty DataFrame of a failed read too).
Cached(c, key, fresh) ==
    IF key \in DOMAIN c
    THEN [df |-> c[key], cache |-> c]
    ELSE [df |-> fresh,
          cache |-> [k \in DOMAIN c \cup {key} |->
                        IF k = key THEN fresh ELSE c[k]]]

\* load_all_data: every row of the table; an empty DataFrame when the read
\* raises.
load_all_data(c, table_name, ok) ==
    Cached(c, <<"load_all_data", table_name, None>>,
           IF ok THEN DataFrame(Table(table_name)) ELSE EmptyFrame)

\* load_user_data: the rows of the table whose user_id is user_id; an empty
\* DataFrame when the read raises.
load_user_data(c, table_name, user_id, ok) ==
    Cached(c, <<"load_user_data", table_name, user_id>>,
           IF ok THEN DataFrame(SelectEqUser(Table(table_name), user_id))
           ELSE EmptyFrame)

\* check_user_exists: response.count > 0; False when the query raises.
check_user_exists(username, ok) ==
    LET Named(r) == r.user_id = username
    IN  IF ok THEN CountOf(user_data, Named) > 0 ELSE FALSE

\* The set of inserts the backend can answer: it can always fail; it can
\* succeed while the table is below the model's bound.
InsertAnswers(table, max) ==
    IF BagCardinality(table) < max THEN BOOLEAN ELSE {FALSE}

Inserted_keeping_cache(table, c, row, ok) ==
    [table |-> IF ok THEN table (+) SetToBag({row}) ELSE table,
     cache |-> c, saved |-> ok]

\* The effect of supabase.table(...).insert(row).execute() followed by
\* st.cache_data.clear() (insert_to_supabase, register_new_user): the row is
\* added and the whole cache emptied, or the insert raises and nothing changes.
Inserted(table, c, row, ok) ==
    IF ok THEN [table |-> table (+) SetToBag({row}), cache |-> EmptyCache, saved |-> TRUE]
    ELSE [table |-> table, cache |-> c, saved |-> FALSE]

(***************************************************************************)
(* Widget events and form inputs.                                          *)
(***************************************************************************)
Blank6 == <<"", "", "", "", "", "">>
Filled6 == <<"g1", "r1", "g2", "r2", "g3", "r3">>

\* The six fields of the daily form: all filled, all blank, or one blank.
DailyInputs == {Filled6, Blank6, [Filled6 EXCEPT ![4] = ""]}

LetterInputs == {"", "dear me"}

LoginInputs == UserNames \cup {"", "U1"}

Event(kind, fields, content) ==
    [kind |-> kind, fields |-> fields, content |-> content]

NoEvent == Event("none", Blank6, "")

\* The username and email a registration run carries from its checks to its
\* insert.
Registration(reg_username, reg_email) ==
    [user |-> reg_username, email |-> reg_email]

NoRegistration == Registration("", "")

\* The events of the tabs: none, or a form submitted.
TabEvents ==
    {NoEvent}
        \cup {Event("daily", f, "") : f \in DailyInputs}
        \cup {Event("weekly", Blank6, c) : c \in LetterInputs}

\* A table (or a row's cells) put on the page, or nothing in its place.
View(df) == [shown |-> TRUE, columns |-> df.columns, rows |-> df.rows]

NoView == [shown |-> FALSE, columns |-> {}, rows |-> EmptyBag]

\* What a run puts on the page: the cells of the sidebar's entry, the table
\* of each tab, and the letter of the weekly tab's read-only view.
Views(superuser, sidebar, tab1, tab2, letter) ==
    [superuser |-> superuser, sidebar |-> sidebar, tab1 |-> tab1,
     tab2 |-> tab2, letter |-> letter]

NoViews == Views(FALSE, NoView, NoView, NoView, NoView)

Step(op, s, u, res, err) ==
    [op |-> op, s |-> s, u |-> u, res |-> res, err |-> err, views |-> NoViews]

\* A step that put views on the page.
Showing(step, views) == [step EXCEPT !.views = views]

\* A step that reports nothing: a read, an expiry, midnight.
Quiet == Step("quiet", None, None, "", FALSE)

all_as_any(f) == \E i \in 1..6 : Truthy(f[i])

\* all([g1, r1, g2, r2, g3, r3])
all(f) == \A i \in 1..6 : Truthy(f[i])

\* save_daily_entry: the row it hands to insert_to_supabase.
save_daily_entry(username, entry_date, f) == DailyRow(username, entry_date, f)

\* save_weekly_letter: the row it hands to insert_to_supabase.
save_weekly_letter(username, week_start, letter_content) ==
    WeeklyRow(username, week_start, letter_content)

\* Lines 240-241 and 285: today_str in daily_dates, where daily_dates exists
\* only when df_daily_entries is not empty.
has_submitted_today(df, t) ==
    ~IsEmpty(df) /\ t \in {r.date : r \in BagToSet(df.rows)}

\* Lines 357-362.
has_submitted_this_week(df, w) ==
    ~IsEmpty(df) /\ w \in {r.week_start : r \in BagToSet(df.rows)}

is_superuser_when_configured(user) == superuser_name # None

\* Lines 215-218.
is_superuser(user) == superuser_name # None /\ user = superuser_name

(***************************************************************************)
(* What the main screen displays.                                          *)
(***************************************************************************)
\* df[columns]: the named columns of the rows, as many rows as before.
Columns(df, cols) ==
    LET Cells(r) == [c \in DOMAIN r \cap cols |-> r[c]]
        images == {Cells(r) : r \in DOMAIN df.rows}
    IN  [columns |-> df.columns \cap cols,
         rows |-> [p \in images |->
                     CountOf(df.rows, LAMBDA r : Cells(r) = p)]]

drop_nothing(df, cols) == df

\* DataFrame.drop(columns=cols, errors='ignore')
drop(df, cols) == Columns(df, df.columns \ cols)

\* df[df[column] == value].iloc[0]: the rows the backend may have returned
\* first among those that match, each as a one-row frame.
FirstWhere(df, column, value) ==
    {DataFrame(SetToBag({r})) :
        r \in {x \in DOMAIN df.rows : x[column] = value}}

\* Line 241: the dates the sidebar's selectbox offers.
daily_dates(df) == {r.date : r \in DOMAIN df.rows}

\* Line 245.
history_df(df, superuser) ==
    IF superuser THEN df ELSE drop(df, {"user_id"})

\* Lines 240-257: the sidebar shows g1 and r1 of the entry of the selected
\* date, taken from history_df; nothing when there are no entries.
SidebarViews(df, superuser) ==
    IF IsEmpty(df) THEN {NoView}
    ELSE {View(Columns(entry, {"g1", "r1"})) :
             entry \in UNION {FirstWhere(history_df(df, superuser), "date", d) :
                                 d \in daily_dates(df)}}

\* Lines 287-291: the read-only view of today's entry; the form otherwise.
DailyViews(df, t) ==
    IF has_submitted_today(df, t)
    THEN {View(Columns(entry, {"g1", "r1", "g2", "r2", "g3", "r3"})) :
             entry \in FirstWhere(df, "date", t)}
    ELSE {NoView}

\* Lines 367-376: the letter of this week, when there is one.
LetterViews(df, w) ==
    IF has_submitted_this_week(df, w)
    THEN {View(Columns(entry, {"letter_content"})) :
             entry \in FirstWhere(df, "week_start", w)}
    ELSE {NoView}

\* Lines 398-404: the weekly history of a regular user.
display_df(df) ==
    IF IsEmpty(df) THEN NoView ELSE View(drop(df, {"user_id"}))

(***************************************************************************)
(* The application: one action per step of a script run of a session.      *)
(***************************************************************************)
runVars == <<pending, today_str, df_daily_entries, df_weekly_letters>>
tables == <<user_data, daily_gratitude, weekly_letters>>

\* The end of a script run: its locals are gone.
EndRun(s) ==
    /\ pc' = [pc EXCEPT ![s] = "idle"]
    /\ pending' = [pending EXCEPT ![s] = NoRegistration]
    /\ today_str' = [today_str EXCEPT ![s] = NoDate]
    /\ df_daily_entries' = [df_daily_entries EXCEPT ![s] = EmptyFrame]
    /\ df_weekly_letters' = [df_weekly_letters EXCEPT ![s] = EmptyFrame]

\* Lines 167-179: the login form is submitted with login_username.
Login(s, login_username) ==
    /\ logged_in_user[s] = None /\ pc[s] = "idle"
    /\ \E ok \in BOOLEAN :
          LET asked == Truthy(login_username)
              found == asked /\ check_user_exists(login_username, ok)
          IN  /\ logged_in_user' =
                     IF found
                     THEN [logged_in_user EXCEPT ![s] = login_username]
                     ELSE logged_in_user
              /\ ev' = Step("login", s, login_username,
                            IF ~asked THEN "empty"
                            ELSE IF found THEN "welcome" ELSE "not_found",
                            asked /\ ~ok)
    /\ UNCHANGED <<today, tables, superuser_name, cache, pc, runVars>>
    /\ UNCHANGED jobVars

\* Lines 192-202: the registration form is submitted; the validation and the
\* existence check. The insert of line 203 is the next step of the run.
RegisterSubmit(s, reg_username, reg_email) ==
    /\ logged_in_user[s] = None /\ pc[s] = "idle"
    /\ \E ok \in BOOLEAN :
          LET required == ~Truthy(reg_username) \/ ~Truthy(reg_email)
              invalid == ~required /\ ~is_valid_email(reg_email)
              asked == ~required /\ ~invalid
              taken == asked /\ check_user_exists(reg_username, ok)
              go == asked /\ ~taken
          IN  /\ pc' = IF go THEN [pc EXCEPT ![s] = "register"] ELSE pc
              /\ pending' =
                     IF go
                     THEN [pending EXCEPT ![s] =
                              Registration(reg_username, reg_email)]
                     ELSE pending
              /\ ev' = Step("register_submit", s, reg_username,
                            IF required THEN "required"
                            ELSE IF invalid THEN "invalid_email"
                            ELSE IF taken THEN "taken" ELSE "checked",
                            asked /\ ~ok)
    /\ UNCHANGED <<today, tables, superuser_name, cache, logged_in_user,
                   today_str, df_daily_entries, df_weekly_letters>>
    /\ UNCHANGED jobVars

\* Lines 203-207 with register_new_user (68-82): the insert, the cache clear
\* and the session identity.
RegisterInsert(s) ==
    /\ pc[s] = "register"
    /\ \E ok \in InsertAnswers(user_data, MaxUserRows) :
          LET reg == pending[s]
              w == Inserted(user_data, cache, UserRow(reg.user, reg.email), ok)
          IN  /\ user_data' = w.table
              /\ cache' = w.cache
              /\ logged_in_user' =
                     IF w.saved THEN [logged_in_user EXCEPT ![s] = reg.user]
                     ELSE logged_in_user
              /\ ev' = Step("register_insert", s, reg.user,
                            IF w.saved THEN "registered" ELSE "store_failure",
                            ~ok)
    /\ EndRun(s)
    /\ UNCHANGED <<today, daily_gratitude, weekly_letters, superuser_name>>
    /\ UNCHANGED jobVars

\* Lines 210-222: a run of the main screen starts and loads the user's daily
\* entries and weekly letters, each from the cache or by a query of its own.
\* The widget event that started the run has no effect before the sidebar
\* and the tabs, so it is drawn where it is first read.
RunStart(s) ==
    /\ logged_in_user[s] # None /\ pc[s] = "idle"
    /\ \E ok1, ok2 \in BOOLEAN :
          LET user == logged_in_user[s]
              d == load_user_data(cache, DAILY_TABLE, user, ok1)
              w == load_user_data(d.cache, WEEKLY_TABLE, user, ok2)
          IN  /\ df_daily_entries' = [df_daily_entries EXCEPT ![s] = d.df]
              /\ df_weekly_letters' = [df_weekly_letters EXCEPT ![s] = w.df]
              /\ cache' = w.cache
    /\ ev' = Quiet
    /\ today_str' = [today_str EXCEPT ![s] = isoformat(today)]
    /\ pc' = [pc EXCEPT ![s] = "body"]
    /\ UNCHANGED <<today, tables, superuser_name, logged_in_user, pending>>
    /\ UNCHANGED jobVars

\* Lines 230-233: the logout button was clicked.
Logout(s) ==
    /\ pc[s] = "body"
    /\ logged_in_user' = [logged_in_user EXCEPT ![s] = None]
    /\ cache' = EmptyCache
    /\ ev' = Quiet
    /\ EndRun(s)
    /\ UNCHANGED <<today, tables, superuser_name>>
    /\ UNCHANGED jobVars

\* Lines 274-279 and 343-348: the superuser's tabs read both tables whole.
SuperuserTabs(s) ==
    /\ pc[s] = "body"
    /\ is_superuser(logged_in_user[s])
    /\ \E ok1, ok2 \in BOOLEAN :
          LET d == load_all_data(cache, DAILY_TABLE, ok1)
              w == load_all_data(d.cache, WEEKLY_TABLE, ok2)
          IN  /\ cache' = w.cache
              /\ \E sidebar \in SidebarViews(df_daily_entries[s], TRUE) :
                    ev' = Showing(Step("all_data", s, logged_in_user[s],
                                       "shown", ~ok1 \/ ~ok2),
                                  Views(TRUE, sidebar, View(d.df), View(w.df),
                                        NoView))
    /\ EndRun(s)
    /\ UNCHANGED <<today, tables, superuser_name, logged_in_user>>
    /\ UNCHANGED jobVars

\* Lines 282-336: the daily tab of a regular user whose run stops in it: the
\* form is shown, it was submitted with all six fields filled, save_daily_entry
\* ran and st.rerun() ended the run.
DailySubmit(s, fields) ==
    /\ pc[s] = "body"
    /\ ~is_superuser(logged_in_user[s])
    /\ ~has_submitted_today(df_daily_entries[s], today_str[s])
    /\ all(fields)
    /\ \E ok \in InsertAnswers(daily_gratitude, MaxDailyRows) :
          LET user == logged_in_user[s]
              row == save_daily_entry(user, today_str[s], fields)
              w == Inserted(daily_gratitude, cache, row, ok)
          IN  /\ daily_gratitude' = w.table
              /\ cache' = w.cache
              /\ \E sidebar \in SidebarViews(df_daily_entries[s], FALSE) :
                    ev' = Showing(Step("daily", None, None,
                                       IF w.saved THEN "saved"
                                       ELSE "store_failure", ~ok),
                                  Views(FALSE, sidebar, NoView, NoView, NoView))
    /\ EndRun(s)
    /\ UNCHANGED <<today, user_data, weekly_letters, superuser_name,
                   logged_in_user>>
    /\ UNCHANGED jobVars

\* Lines 354-393: the weekly tab of a regular user whose run stops in it: the
\* form is shown, it was submitted with a letter, save_weekly_letter ran and
\* st.rerun() ended the run.
WeeklySubmit(s, content) ==
    /\ pc[s] = "body"
    /\ ~is_superuser(logged_in_user[s])
    /\ ~has_submitted_this_week(df_weekly_letters[s], get_week_start(today))
    /\ Truthy(content)
    /\ \E ok \in InsertAnswers(weekly_letters, MaxWeeklyRows) :
          LET user == logged_in_user[s]
              row == save_weekly_letter(user, get_week_start(today), content)
              w == Inserted(weekly_letters, cache, row, ok)
          IN  /\ weekly_letters' = w.table
              /\ cache' = w.cache
              /\ \E sidebar \in SidebarViews(df_daily_entries[s], FALSE),
                    tab1 \in DailyViews(df_daily_entries[s], today_str[s]) :
                    ev' = Showing(Step("weekly", None, None,
                                       IF w.saved THEN "saved"
                                       ELSE "store_failure", ~ok),
                                  Views(FALSE, sidebar, tab1, NoView, NoView))
    /\ EndRun(s)
    /\ UNCHANGED <<today, user_data, daily_gratitude, superuser_name,
                   logged_in_user>>
    /\ UNCHANGED jobVars

\* Lines 282-404: a run of a regular user that reaches the end of the script
\* on event e: each tab shows the read-only view, or the form; a form
\* submitted with a blank field gets st.error, and the event of a form that is
\* not shown is lost.
Render(s, e) ==
    /\ pc[s] = "body"
    /\ ~is_superuser(logged_in_user[s])
    /\ LET daily_done == has_submitted_today(df_daily_entries[s], today_str[s])
           weekly_done == has_submitted_this_week(df_weekly_letters[s],
                                                  get_week_start(today))
       IN  /\ ~(e.kind = "daily" /\ ~daily_done /\ all(e.fields))
           /\ ~(e.kind = "weekly" /\ ~weekly_done /\ Truthy(e.content))
           /\ \E sidebar \in SidebarViews(df_daily_entries[s], FALSE),
                 tab1 \in DailyViews(df_daily_entries[s], today_str[s]),
                 letter \in LetterViews(df_weekly_letters[s],
                                        get_week_start(today)) :
                 ev' = Showing(IF e.kind = "daily" /\ ~daily_done
                               THEN Step("daily", None, None, "rejected", FALSE)
                               ELSE IF e.kind = "weekly" /\ ~weekly_done
                               THEN Step("weekly", None, None, "rejected", FALSE)
                               ELSE Quiet,
                               Views(FALSE, sidebar, tab1,
                                     display_df(df_weekly_letters[s]), letter))
    /\ EndRun(s)
    /\ UNCHANGED <<today, tables, superuser_name, cache, logged_in_user>>
    /\ UNCHANGED jobVars

\* The 60 seconds of a cache entry run out.
CacheExpire(key) ==
    /\ key \in DOMAIN cache
    /\ cache' = [k \in DOMAIN cache \ {key} |-> cache[k]]
    /\ ev' = Quiet
    /\ UNCHANGED <<today, tables, superuser_name, logged_in_user, pc, runVars>>
    /\ UNCHANGED jobVars

\* Midnight passes.
TickDay ==
    /\ today < FirstDay + MaxDays
    /\ today' = today + 1
    /\ ev' = Quiet
    /\ UNCHANGED <<tables, superuser_name, cache, logged_in_user, pc, runVars>>
    /\ UNCHANGED jobVars

CacheKeys ==
    {<<"load_user_data", t, u>> : t \in {DAILY_TABLE, WEEKLY_TABLE}, u \in UserNames}
        \cup {<<"load_all_data", t, None>> : t \in {DAILY_TABLE, WEEKLY_TABLE}}

(***************************************************************************)
(* The specifications.                                                     *)
(***************************************************************************)
JobIdle ==
    /\ env = RequiredEnv
    /\ jobPc = "start"
    /\ user_df = <<>>
    /\ idx = 1
    /\ attempts = <<>>
    /\ exit_status = -1
    /\ job_failure = "none"

RunsIdle ==
    /\ pc = [s \in Sessions |-> "idle"]
    /\ pending = [s \in Sessions |-> NoRegistration]
    /\ today_str = [s \in Sessions |-> NoDate]
    /\ df_daily_entries = [s \in Sessions |-> EmptyFrame]
    /\ df_weekly_letters = [s \in Sessions |-> EmptyFrame]
    /\ ev = Quiet

\* The journal of the regular users: the users are registered, every session
\* is logged in as one of them, and no superuser name is configured. (Login,
\* registration and logout are the steps of RegSpec.)
Init ==
    /\ today = FirstDay
    /\ user_data = SetToBag({UserRow(u, "a@b.c") : u \in UserNames})
    /\ daily_gratitude = EmptyBag
    /\ weekly_letters = EmptyBag
    /\ superuser_name = None
    /\ cache = EmptyCache
    /\ logged_in_user \in [Sessions -> UserNames]
    /\ RunsIdle
    /\ JobIdle

Next ==
    \/ \E s \in Sessions : RunStart(s)
    \/ \E s \in Sessions, f \in DailyInputs : DailySubmit(s, f)
    \/ \E s \in Sessions, c \in LetterInputs : WeeklySubmit(s, c)
    \/ \E s \in Sessions, e \in TabEvents : Render(s, e)
    \/ \E k \in CacheKeys : CacheExpire(k)
    \/ TickDay

Spec == Init /\ [][Next]_vars

\* Registration and login: the backend starts empty; a logged-in session
\* renders the main screen or logs out.
RegInit ==
    /\ today = FirstDay
    /\ user_data = EmptyBag
    /\ daily_gratitude = EmptyBag
    /\ weekly_letters = EmptyBag
    /\ superuser_name \in {None, "root"}
    /\ cache = EmptyCache
    /\ logged_in_user = [s \in Sessions |-> None]
    /\ RunsIdle
    /\ JobIdle

RegNext ==
    \/ \E s \in Sessions, u \in LoginInputs : Login(s, u)
    \/ \E s \in Sessions, u \in UserNames \cup {""}, e \in EmailInputs :
          RegisterSubmit(s, u, e)
    \/ \E s \in Sessions : RegisterInsert(s)
    \/ \E s \in Sessions : RunStart(s)
    \/ \E s \in Sessions : Logout(s)
    \/ \E s \in Sessions : SuperuserTabs(s)
    \/ \E s \in Sessions : Render(s, NoEvent)
    \/ \E k \in CacheKeys : CacheExpire(k)

RegSpec == RegInit /\ [][RegNext]_vars

\* The journal with its superuser: the users are registered, the sessions log
\* in and out, and the configured superuser name is absent, the name of a
\* user, or a name that differs from it in case only.
AdminNames == {None, "root", "Root"}

AdminInit ==
    /\ today = FirstDay
    /\ user_data = SetToBag({UserRow(u, "a@b.c") : u \in UserNames})
    /\ daily_gratitude = EmptyBag
    /\ weekly_letters = EmptyBag
    /\ superuser_name \in AdminNames
    /\ cache = EmptyCache
    /\ logged_in_user = [s \in Sessions |-> None]
    /\ RunsIdle
    /\ JobIdle

AdminNext ==
    \/ \E s \in Sessions, u \in LoginInputs : Login(s, u)
    \/ \E s \in Sessions : RunStart(s)
    \/ \E s \in Sessions : Logout(s)
    \/ \E s \in Sessions : SuperuserTabs(s)
    \/ \E s \in Sessions, f \in DailyInputs : DailySubmit(s, f)
    \/ \E s \in Sessions, c \in LetterInputs : WeeklySubmit(s, c)
    \/ \E s \in Sessions, e \in TabEvents : Render(s, e)
    \/ \E k \in CacheKeys : CacheExpire(k)

AdminSpec == AdminInit /\ [][AdminNext]_vars

\* The three writes side by side: one user is registered, the other registers;
\* the sessions log in and write their entries.
WriteInit ==
    /\ today = FirstDay
    /\ user_data = SetToBag({UserRow("root", "a@b.c")})
    /\ daily_gratitude = EmptyBag
    /\ weekly_letters = EmptyBag
    /\ superuser_name = None
    /\ cache = EmptyCache
    /\ logged_in_user = [s \in Sessions |-> None]
    /\ RunsIdle
    /\ JobIdle

WriteNext ==
    \/ \E s \in Sessions, u \in UserNames : Login(s, u)
    \/ \E s \in Sessions, u \in UserNames, e \in {"a@b.c", "ab.c"} :
          RegisterSubmit(s, u, e)
    \/ \E s \in Sessions : RegisterInsert(s)
    \/ \E s \in Sessions : RunStart(s)
    \/ \E s \in Sessions, f \in DailyInputs : DailySubmit(s, f)
    \/ \E s \in Sessions, c \in LetterInputs : WeeklySubmit(s, c)
    \/ \E s \in Sessions, e \in TabEvents : Render(s, e)
    \/ \E k \in CacheKeys : CacheExpire(k)

WriteSpec == WriteInit /\ [][WriteNext]_vars

\* The rows the reminder job can find in user_data.
JobUserRows ==
    {UserRow(u, e) : u \in {"u1", "u2", NULL}, e \in {"a@b.c", "null", NULL}}

RECURSIVE BagsUpTo(_, _)
BagsUpTo(S, n) ==
    IF n = 0 THEN {EmptyBag}
    ELSE LET smaller == BagsUpTo(S, n - 1)
         IN  smaller \cup {b (+) SetToBag({r}) : b \in smaller, r \in S}

\* One run of the reminder job: the environment and the backend are as the
\* run finds them.
JobInit ==
    /\ today = FirstDay
    /\ user_data \in BagsUpTo(JobUserRows, MaxUserRows)
    /\ \E submitters \in SUBSET {"u1", "u2"} :
          daily_gratitude =
              SetToBag({DailyRow(u, isoformat(FirstDay), Filled6) : u \in submitters})
    /\ weekly_letters = EmptyBag
    /\ superuser_name = None
    /\ cache = EmptyCache
    /\ logged_in_user = [s \in Sessions |-> None]
    /\ RunsIdle
    /\ env \in SUBSET RequiredEnv
    /\ jobPc = "start"
    /\ user_df = <<>>
    /\ idx = 1
    /\ attempts = <<>>
    /\ exit_status = -1
    /\ job_failure = "none"

\* The job is a sequential process: it runs until it exits.
JobSpec == JobInit /\ [][JobNext]_vars /\ WF_vars(JobNext)

(***************************************************************************)
(* The reminder job's claims, checked under JobSpec.                       *)
(***************************************************************************)
\* The user_ids of the rows of user_data that carry an email and a user_id.
UsersWithEmail ==
    {r.user_id : r \in {x \in BagToSet(user_data) :
                            /\ x.email # NULL /\ x.email # "null"
                            /\ x.user_id # NULL}}

\* The user_ids with a daily_gratitude row dated today.
SubmittedToday ==
    {r.user_id : r \in {x \in BagToSet(daily_gratitude) :
                            x.date = isoformat(today)}}

\* The users a send was attempted to.
AttemptedUsers == {attempts[i].post.user : i \in 1..Len(attempts)}

\* The run got past its job-level checks and has ended.
JobRanToEnd == jobPc = "exited" /\ job_failure = "none"

C4_JobFailureIsFatal ==
    job_failure # "none" =>
        jobPc = "exited" /\ exit_status > 0 /\ attempts = <<>>

\* The posts main makes for a sequence of fetched rows: one for each row with
\* a user_id and an email, in the order of the rows.
HasBoth(row) == row.email # NULL /\ row.user_id # NULL

PostsFor(rows) ==
    LET sel == SelectSeq(rows, HasBoth)
    IN  [i \in 1..Len(sel) |-> [to |-> sel[i].email, user |-> sel[i].user_id]]

PostsMade == [i \in 1..Len(attempts) |-> attempts[i].post]

\* C5: while the loop runs, the posts made are exactly those of the rows
\* passed so far, one per row that has a user_id and an email, in fetch order,
\* whatever the earlier posts answered; and the loop always reaches its end,
\* where the run exits with status 0 having made the posts of all the rows.
C5_EveryRowGetsItsSend ==
    /\ [](jobPc = "loop" => PostsMade = PostsFor(SubSeq(user_df, 1, idx - 1)))
    /\ [](jobPc = "loop" =>
              <>(/\ jobPc = "exited"
                 /\ exit_status = 0
                 /\ PostsMade = PostsFor(user_df)))

\* A run has ended after two posts of which the first did not succeed.
C5_Witness ==
    /\ jobPc = "exited" /\ exit_status = 0
    /\ Len(attempts) >= 2
    /\ attempts[1].log # "SUCCESS"

(***************************************************************************)
(* The journal's claims, checked under Spec.                               *)
(***************************************************************************)
DailyCount(u, d) ==
    LET Same(r) == r.user_id = u /\ r.date = d IN CountOf(daily_gratitude, Same)

WeeklyCount(u, w) ==
    LET Same(r) == r.user_id = u /\ r.week_start = w
    IN  CountOf(weekly_letters, Same)

\* C1: daily_gratitude holds at most one row per (user_id, date) and
\* weekly_letters at most one row per (user_id, week_start).
C1_AtMostOneRowPerKey ==
    /\ \A r \in BagToSet(daily_gratitude) : DailyCount(r.user_id, r.date) <= 1
    /\ \A r \in BagToSet(weekly_letters) :
          WeeklyCount(r.user_id, r.week_start) <= 1

\* C7: every stored daily row carries a registered user's user_id, a date of
\* the clock and the six strings of the form; and a run of a user who has a
\* row dated with the run's today_str evaluates has_submitted_today to true.
C7_SubmittedDayShowsReadOnly ==
    /\ \A r \in BagToSet(daily_gratitude) :
          \E u \in UserNames, d \in FirstDay..today :
              r = DailyRow(u, isoformat(d), Filled6)
    /\ \A s \in Sessions :
          (pc[s] = "body" /\ DailyCount(logged_in_user[s], today_str[s]) > 0)
              => has_submitted_today(df_daily_entries[s], today_str[s])

\* No stored daily or weekly row has an empty content field.
NoEmptyField ==
    /\ \A r \in BagToSet(daily_gratitude) :
          /\ r.g1 # "" /\ r.r1 # "" /\ r.g2 # ""
          /\ r.r2 # "" /\ r.g3 # "" /\ r.r3 # ""
    /\ \A r \in BagToSet(weekly_letters) : r.letter_content # ""

\* C8: no stored daily or weekly row has an empty content field, and the step
\* that rejects a submission with an empty field leaves the three tables and
\* the read cache as they were.
C8_RejectedSubmissionWritesNothing ==
    /\ []NoEmptyField
    /\ [][ev'.res = "rejected" => UNCHANGED <<tables, cache>>]_vars

\* A daily submission has just been rejected while the cache held entries.
C8_Witness ==
    /\ ev.op = "daily" /\ ev.res = "rejected"
    /\ cache # EmptyCache

\* C10 for one date d: week_start(d) is a Monday, 0 to 6 days before d, and
\* the week start of that Monday is itself.
WeekStartIsItsMonday(d) ==
    LET w == fromisoformat(get_week_start(d))
    IN  /\ isoweekday(w) = 1
        /\ w <= d /\ d - w <= 6
        /\ get_week_start(w) = get_week_start(d)

\* C10: for the clock's date and the WeekWindow dates after it, week_start is the
\* Monday on or before it, and idempotent; and every stored weekly letter has
\* a Monday as its week_start.
C10_WeekStartIsMonday ==
    /\ \A d \in today..(today + WeekWindow) :
          WeekStartIsItsMonday(d)
    /\ \A r \in BagToSet(weekly_letters) :
          isoweekday(fromisoformat(r.week_start)) = 1

\* A letter written on a Sunday is stored under the Monday six days before.
C10_Witness ==
    \E r \in BagToSet(weekly_letters) :
        fromisoformat(r.week_start) = today - 6

(***************************************************************************)
(* The claims of registration and login, checked under RegSpec.            *)
(***************************************************************************)
UserCount(u) == LET Named(r) == r.user_id = u IN CountOf(user_data, Named)

\* C2: user_data never contains two rows with the same user_id.
C2_UserIdsUnique ==
    \A r \in BagToSet(user_data) : UserCount(r.user_id) <= 1

\* C6: a login attempt with username u has made u the session's identity if
\* and only if user_data has a row with that user_id, and has left the
\* identity unset otherwise.
C6_LoginIffUserExists ==
    ev.op = "login" =>
        IF UserCount(ev.u) > 0
        THEN logged_in_user[ev.s] = ev.u
        ELSE logged_in_user[ev.s] = None

\* The number of "@" in a text, and whether a "." follows an "@".
AtCount(c) == Cardinality({i \in 1..Len(c) : c[i] = "@"})

DotAfterAt(c) == \E i, j \in 1..Len(c) : i < j /\ c[i] = "@" /\ c[j] = "."

\* C9: every row of user_data has an email with exactly one "@" and a "."
\* after it, and so has the email of a registration that got past validation.
C9_OnlyWellFormedEmails ==
    /\ \A r \in BagToSet(user_data) :
          AtCount(Chars(r.email)) = 1 /\ DotAfterAt(Chars(r.email))
    /\ \A s \in Sessions :
          pc[s] = "register" =>
              /\ AtCount(Chars(pending[s].email)) = 1
              /\ DotAfterAt(Chars(pending[s].email))

(***************************************************************************)
(* C11. What the main screen shows of the user_id column.                  *)
(***************************************************************************)
ViewsOf(step) ==
    {step.views.sidebar, step.views.tab1, step.views.tab2, step.views.letter}

RegularViewsHideUserId ==
    ~ev.views.superuser => \A v \in ViewsOf(ev) : "user_id" \notin v.columns

C12_UnfilteredReadOnlyBySuperuser ==
    /\ ev.op = "all_data" =>
           /\ superuser_name # None
           /\ ev.u # None
           /\ ev.u = superuser_name
    /\ \A k \in DOMAIN cache :
           k[1] = "load_all_data" => superuser_name # None
    /\ \A s \in Sessions :
           \A r \in DOMAIN df_daily_entries[s].rows
                        \cup DOMAIN df_weekly_letters[s].rows :
               logged_in_user[s] # None /\ r.user_id = logged_in_user[s]

\* The superuser has read a daily table that holds a row of another user
\* while a session of that user is in a run with its own rows.
C12_Witness ==
    /\ ev.op = "all_data"
    /\ \E r \in DOMAIN ev.views.tab1.rows : r.user_id # ev.u
    /\ \E s \in Sessions :
           /\ logged_in_user[s] # superuser_name
           /\ df_daily_entries[s].rows # EmptyBag

(***************************************************************************)
(* C13. The two outcomes of a write.                                       *)
(***************************************************************************)
RowsStored ==
    BagCardinality(user_data) + BagCardinality(daily_gratitude)
        + BagCardinality(weekly_letters)

\* The step just taken was a write sent to the backend.
WasWrite(step) ==
    \/ step.op = "register_insert"
    \/ step.op \in {"daily", "weekly"} /\ step.res # "rejected"

\* C13: a write (registration, daily entry, weekly letter) ends in one of two
\* ways: one row more is stored, no stored row is lost and the read cache is
\* empty; or the tables and the read cache are as they were. Either way the
\* run that wrote has ended and carries no registration to try again.
C13_WriteHasTwoOutcomes ==
    [][WasWrite(ev') =>
          /\ \/ /\ ev'.res \in {"registered", "saved"}
                /\ RowsStored' = RowsStored + 1
                /\ user_data \sqsubseteq user_data'
                /\ daily_gratitude \sqsubseteq daily_gratitude'
                /\ weekly_letters \sqsubseteq weekly_letters'
                /\ cache' = EmptyCache
             \/ /\ ev'.res = "store_failure"
                /\ UNCHANGED <<tables, cache>>
          /\ \E s \in Sessions :
                /\ pc[s] \in {"body", "register"}
                /\ pc'[s] = "idle"
                /\ pending'[s] = NoRegistration]_vars

\* A registration that failed in the backend while the cache held the reads
\* of another session: the cache is still there and the user is not stored.
C13_Witness ==
    /\ ev.op = "register_insert"
    /\ ev.res = "store_failure"
    /\ cache # EmptyCache
    /\ \A r \in DOMAIN user_data : r.user_id # ev.u

====
